---- MODULE Spec2Model ----
(***************************************************************************)
(* Session scoping, identity resolution, role gate and organization        *)
(* selection of alliance-436-admin, as a state machine over the stored     *)
(* users and memberships and the browser's signed session cookie.          *)
(* Strings that the code builds or inspects character by character (paths, *)
(* redirect locations) are sequences of one-character strings.             *)
(***************************************************************************)
EXTENDS Integers, Sequences, FiniteSets, TLC

\* ------------------------------------------------------------------ bounds
NumOrgs == 2
MaxPathLen == 2
MaxTransactions == 2     \* transactions stored before the routes stop creating more

\* ------------------------------------------------------------------ values
Undefined == [undefined |-> TRUE]
Null == [null |-> TRUE]
\* a string argument or form field that was not given
NoString == <<"(undefined)">>

\* Two accounts: every claim speaks of one user and of the other users.
UserIds == {[user |-> 1], [user |-> 2]}
OrgIds == {[org |-> i] : i \in 1..NumOrgs}
\* an id that names no stored organization (a tampered form value)
UnknownOrgId == [org |-> 0]
\* the empty string as the form's orgId
BlankOrgId == [blank |-> TRUE]

UserRole == {"USER", "ADMIN", "SUPERADMIN"}

USER_SESSION_KEY == "userId"
ORGANIZATION_SESSION_KEY == "organizationId"

\* A session is the bag of key/value pairs carried by the cookie.
Sessions == [userId : UserIds \cup {Undefined}, organizationId : OrgIds \cup {Undefined}]
EmptySession == [userId |-> Undefined, organizationId |-> Undefined]

VARIABLES
    users,        \* db.user: stored user id -> global role
    memberships,  \* db.membership: set of rows [userId, orgId, isDefault]
    cookie,       \* the session the browser sends with its next request
    last,         \* the last request handled: operation, inputs, response, state before
    race,         \* two submits of one user in progress at once: forms, positions
    ledger        \* a reimbursement request, its receipts, and the transactions

vars == <<users, memberships, cookie, last, race, ledger>>

\* --------------------------------------------------------------- strings
LoginPath == <<"/", "l", "o", "g", "i", "n">>
RootPath == <<"/">>
ChooseOrgPath == <<"/", "c", "h", "o", "o", "s", "e", "-", "o", "r", "g">>
AccountPath == <<"/", "a", "c", "c", "o", "u", "n", "t", "s", "/", "4", "2">>
RedirectToParam == <<"r", "e", "d", "i", "r", "e", "c", "t", "T", "o">>
Origin == <<"h", "t", "t", "p", "s", ":", "/", "/", "a", "p", "p">>

\* Characters application/x-www-form-urlencoded leaves as they are.
FormSafeChars ==
    {"a", "b", "c", "d", "e", "f", "g", "h", "i", "j", "k", "l", "m", "n", "o", "p", "q",
     "r", "s", "t", "u", "v", "w", "x", "y", "z", "A", "B", "C", "D", "E", "F", "T",
     "0", "1", "2", "3", "4", "5", "6", "7", "8", "9", "*", "-", ".", "_"}

\* The percent-encoding of the other characters the model uses.
PercentCode(c) ==
    CASE c = "/" -> <<"%", "2", "F">>
      [] c = "%" -> <<"%", "2", "5">>
      [] c = "?" -> <<"%", "3", "F">>
      [] c = "=" -> <<"%", "3", "D">>
      [] c = "&" -> <<"%", "2", "6">>
      [] c = "+" -> <<"%", "2", "B">>
      [] c = ":" -> <<"%", "3", "A">>

\* (mutation) the value is put into the query string as it is
FormEncodeChar_Raw(c) == <<c>>

FormEncodeChar(c) ==
    IF c \in FormSafeChars THEN <<c>>
    ELSE IF c = " " THEN <<"+">>
    ELSE PercentCode(c)

RECURSIVE FormEncode(_)
\* URLSearchParams.toString() applied to one value
FormEncode(s) ==
    IF s = <<>> THEN <<>> ELSE FormEncodeChar(Head(s)) \o FormEncode(Tail(s))

\* new URLSearchParams([[name, value]]).toString()
URLSearchParamsToString(name, value) == FormEncode(name) \o <<"=">> \o FormEncode(value)

\* --------------------------------------------------------------- responses
NoCookie == [op |-> "none", session |-> EmptySession]
CommitSession(session) == [op |-> "commit", session |-> session]
DestroySession(session) == [op |-> "destroy", session |-> EmptySession]

Response(kind, value, location, setCookie) ==
    [kind |-> kind, value |-> value, location |-> location, setCookie |-> setCookie]

Returns(value) == Response("ok", value, <<>>, NoCookie)
Redirect(location, setCookie) == Response("redirect", Null, location, setCookie)
Unauthorized(user) == Response("unauthorized", user, <<>>, NoCookie)
\* (mutation) a Forbidden response that also ends the session
Forbidden_EndsSession(user) == Response("forbidden", user, <<>>, CommitSession(EmptySession))
Forbidden(user) == Response("forbidden", user, <<>>, NoCookie)
ValidationError == Response("validationError", Null, <<>>, NoCookie)
Thrown(what) == Response("error", what, <<>>, NoCookie)

\* What the browser holds after it has received the response.
ApplySetCookie(old, setCookie) ==
    CASE setCookie.op = "none" -> old
      [] setCookie.op = "commit" -> setCookie.session
      [] setCookie.op = "destroy" -> EmptySession

\* ------------------------------------------------------------ session service
GetSession(c) == c

\* (mutation) session.set that keeps a value the session already holds
SessionSet_KeepExisting(session, key, value) ==
    IF session[key] = Undefined THEN [session EXCEPT ![key] = value] ELSE session

\* session.set(key, value)
SessionSet(session, key, value) == [session EXCEPT ![key] = value]

GetUserId(c) == GetSession(c)[USER_SESSION_KEY]

GetUserById(id) ==
    IF id \in DOMAIN users THEN [id |-> id, role |-> users[id]] ELSE Null

\* (mutation) logout that redirects without clearing the cookie
Logout_KeepCookie(c) == Redirect(LoginPath, NoCookie)

Logout(c) == Redirect(LoginPath, DestroySession(GetSession(c)))

\* 60 * 60 * 24 * 7: the maxAge of a remembered login
SessionMaxAge == 604800

\* createUserSession({request, userId, remember, redirectTo})
CreateUserSession(c, userId, remember, redirectTo) ==
    LET session == SessionSet(GetSession(c), USER_SESSION_KEY, userId)
    IN Redirect(redirectTo,
                [op |-> "commit", session |-> session,
                 maxAge |-> IF remember THEN [seconds |-> SessionMaxAge] ELSE Undefined])

\* requireUserId: the userId, or the redirect it throws
RequireUserId(c, redirectTo) ==
    LET userId == GetUserId(c) IN
    IF userId = Undefined
    THEN Redirect(LoginPath \o <<"?">> \o URLSearchParamsToString(RedirectToParam, redirectTo),
                  NoCookie)
    ELSE Returns(userId)

\* --------------------------------------------------------------- storage
\* db.membership, unique on (userId, orgId): for each pair, no row or the row's
\* isDefault column.
NoRow == "none"
Row(isDefault) == IF isDefault THEN "default" ELSE "member"

\* (mutation) the lookup checks that the organization exists, not the membership
MembershipExists_AnyOrg(userId, orgId) ==
    /\ userId \in UserIds
    /\ orgId \in OrgIds

MembershipExists(userId, orgId) ==
    /\ userId \in UserIds
    /\ orgId \in OrgIds
    /\ memberships[userId][orgId] # NoRow

IsDefault(rows, userId, orgId) == rows[userId][orgId] = Row(TRUE)

\* db.membership.update({data: {isDefault: true}, where: {userId_orgId}})
MembershipUpdateDefault(rows, userId, orgId) ==
    [rows EXCEPT ![userId][orgId] = Row(TRUE)]

\* (mutation) updateMany without its where clause
MembershipClearDefaults_AllUsers(rows, userId) ==
    [u \in UserIds |-> [o \in OrgIds |-> IF rows[u][o] = NoRow THEN NoRow ELSE Row(FALSE)]]

\* db.membership.updateMany({where: {userId}, data: {isDefault: false}})
MembershipClearDefaults(rows, userId) ==
    [rows EXCEPT ![userId] = [o \in OrgIds |-> IF @[o] = NoRow THEN NoRow ELSE Row(FALSE)]]

\* new URL(redirectTo ?? "/", url.origin).toString() for a relative target
RedirectUrl(redirectTo) ==
    Origin \o (IF redirectTo = NoString THEN RootPath ELSE redirectTo)

\* private requireUserByRole(request, allowedRoles?)
Omitted == [given |-> FALSE, roles |-> {}]
Given(roles) == [given |-> TRUE, roles |-> roles]
\* (mutation) a default set that leaves out USER
defaultAllowedRoles_AdminOnly == {"ADMIN"}

defaultAllowedRoles == {"USER", "ADMIN"}

\* (mutation) the gate without the SUPERADMIN override
RequireUserByRole_NoOverride(c, path, allowedRoles) ==
    LET auth == RequireUserId(c, path)
        user == GetUserById(auth.value)
    IN
    IF auth.kind # "ok" THEN auth
    ELSE IF user # Null /\ allowedRoles.given /\ Cardinality(allowedRoles.roles) > 0
    THEN IF user.role \in allowedRoles.roles THEN Returns(user) ELSE Unauthorized(user)
    ELSE IF user # Null /\ user.role \in defaultAllowedRoles THEN Returns(user)
    ELSE Forbidden(user)

RequireUserByRole(c, path, allowedRoles) ==
    LET auth == RequireUserId(c, path)
        user == GetUserById(auth.value)
    IN
    IF auth.kind # "ok" THEN auth
    ELSE IF user # Null /\ user.role = "SUPERADMIN" THEN Returns(user)
    ELSE IF user # Null /\ allowedRoles.given /\ Cardinality(allowedRoles.roles) > 0
    THEN IF user.role \in allowedRoles.roles THEN Returns(user) ELSE Unauthorized(user)
    ELSE IF user # Null /\ user.role \in defaultAllowedRoles THEN Returns(user)
    ELSE Forbidden(user)

RequireUser(c, path) == RequireUserByRole(c, path, Omitted)
RequireAdmin(c, path) == RequireUserByRole(c, path, Given({"ADMIN"}))
RequireSuperAdmin(c, path) == RequireUserByRole(c, path, Given({"SUPERADMIN"}))

\* getUser and getSessionUser differ only in the relations they include
GetUser(c) ==
    LET userId == GetUserId(c)
        user == GetUserById(userId)
    IN
    IF userId = Undefined THEN Returns(Null)
    ELSE IF user # Null THEN Returns(user)
    ELSE Logout(c)

GetSessionUser(c) ==
    LET userId == GetUserId(c)
        user == GetUserById(userId)
    IN
    IF userId = Undefined THEN Returns(Null)
    ELSE IF user # Null THEN Returns(user)
    ELSE Logout(c)

\* ------------------------------------------------------------------ requests
\* The server keeps nothing of a request once it has answered (all state is in
\* the cookie or in storage): `last` holds the request being answered and the
\* state it found, until the browser has taken the response.
\* no submits are racing
NoRace == [userId |-> Undefined, start |-> <<>>, form |-> <<>>, pc |-> <<>>]
Racing == race.userId # Undefined

\* no reimbursement request is stored
NoLedger == [status |-> "NONE", transactions |-> <<>>, receipts |-> <<>>]

NoRequest == [op |-> "none", req |-> Null, res |-> Returns(Null), prevUsers |-> <<>>,
              prevMemberships |-> <<>>, prevCookie |-> EmptySession,
              prevLedger |-> NoLedger]

Idle == last.op = "none"

Respond(op, req, res) ==
    /\ Idle
    /\ last' = [op |-> op, req |-> req, res |-> res, prevUsers |-> users,
                prevMemberships |-> memberships, prevCookie |-> cookie,
                prevLedger |-> ledger]
    /\ cookie' = ApplySetCookie(cookie, res.setCookie)
    /\ UNCHANGED race

ResponseDelivered ==
    /\ ~Idle
    /\ last' = NoRequest
    /\ UNCHANGED <<users, memberships, cookie, race, ledger>>

\* Toasts.redirectWithError(url, {title, description}, init)
RedirectWithError(location, description, setCookie) ==
    Response("redirect", [toast |-> "error", description |-> description], location, setCookie)

\* user.memberships as selected by the loader's query, in storage order
ListMemberships(userId) ==
    LET stored == SelectSeq([i \in 1..NumOrgs |-> [org |-> i]],
                            LAMBDA o : memberships[userId][o] # NoRow)
    IN [i \in 1..Len(stored) |->
            [id |-> stored[i], isDefault |-> IsDefault(memberships, userId, stored[i])]]

\* (mutation) the loader without its check for an empty membership list
ChooseOrgLoader_PresentsEmpty(c) ==
    LET auth == RequireUserId(c, ChooseOrgPath)
        user == GetUserById(auth.value)
    IN
    IF auth.kind # "ok" THEN auth
    ELSE IF user = Null THEN Logout(c)
    ELSE Returns([orgs |-> ListMemberships(user.id)])

\* The loader of the organization selection route.
ChooseOrgLoader(c) ==
    LET auth == RequireUserId(c, ChooseOrgPath)
        session == GetSession(c)
        user == GetUserById(auth.value)
    IN
    IF auth.kind # "ok" THEN auth
    ELSE IF user = Null THEN Logout(c)
    ELSE IF Len(ListMemberships(user.id)) = 0
    THEN RedirectWithError(LoginPath, "You are not a member of any organizations.",
                           DestroySession(session))
    ELSE Returns([orgs |-> ListMemberships(user.id)])

\* form values of the organization selection submit
OrgIdInputs == OrgIds \cup {UnknownOrgId, BlankOrgId}
RedirectToInputs == {NoString, ChooseOrgPath, AccountPath}

\* The action of the organization selection route.
ChooseOrgAction(orgId, rememberSelection, redirectTo) ==
    LET req == [orgId |-> orgId, rememberSelection |-> rememberSelection,
                redirectTo |-> redirectTo]
        auth == RequireUserId(cookie, ChooseOrgPath)
        userId == auth.value
        session == SessionSet(GetSession(cookie), ORGANIZATION_SESSION_KEY, orgId)
    IN
    IF auth.kind # "ok"
    THEN Respond("chooseOrg", req, auth) /\ UNCHANGED <<users, memberships, ledger>>
    ELSE IF orgId = BlankOrgId
    THEN Respond("chooseOrg", req, ValidationError) /\ UNCHANGED <<users, memberships, ledger>>
    ELSE IF ~MembershipExists(userId, orgId)
    THEN Respond("chooseOrg", req, Thrown([error |-> "NotFound"]))
         /\ UNCHANGED <<users, memberships, ledger>>
    ELSE /\ memberships' =
                IF rememberSelection
                THEN MembershipUpdateDefault(memberships, userId, orgId)
                ELSE MembershipClearDefaults(memberships, userId)
         /\ Respond("chooseOrg", req, Redirect(RedirectUrl(redirectTo), CommitSession(session)))
         /\ UNCHANGED <<users, ledger>>

ChooseOrgSubmit ==
    /\ Idle
    /\ \E orgId \in OrgIdInputs, rememberSelection \in BOOLEAN, redirectTo \in RedirectToInputs :
            ChooseOrgAction(orgId, rememberSelection, redirectTo)

\* Calls of the session service on a request for one of the routes.
RoutePaths == {AccountPath}
AllowedRolesInputs == {Omitted} \cup {Given(roles) : roles \in SUBSET UserRole}

ServiceCall(op, req, res) ==
    Respond(op, req, res) /\ UNCHANGED <<users, memberships, ledger>>

ChooseOrgLoad == ServiceCall("chooseOrgLoader", Null, ChooseOrgLoader(cookie))

\* The login route calls createUserSession for the user whose credentials it
\* has verified, on whatever session the request carries.
Login ==
    \E userId \in DOMAIN users, remember \in BOOLEAN :
        ServiceCall("createUserSession",
                    [userId |-> userId, remember |-> remember, redirectTo |-> RootPath],
                    CreateUserSession(cookie, userId, remember, RootPath))

GetUserIdCall == ServiceCall("getUserId", Null, Returns(GetUserId(cookie)))

GetUserCall == ServiceCall("getUser", Null, GetUser(cookie))

GetSessionUserCall == ServiceCall("getSessionUser", Null, GetSessionUser(cookie))

LogoutCall == ServiceCall("logout", Null, Logout(cookie))

RequireUserIdOn(paths, explicit) ==
    \E path \in paths, redirectTo \in explicit \cup {NoString} :
        ServiceCall("requireUserId", [path |-> path, redirectTo |-> redirectTo],
                    RequireUserId(cookie, IF redirectTo = NoString THEN path ELSE redirectTo))

RequireUserIdCall == RequireUserIdOn(RoutePaths, {LoginPath})

RequireUserByRoleCall ==
    \E path \in RoutePaths, allowedRoles \in AllowedRolesInputs :
        ServiceCall("requireUserByRole", [path |-> path, allowedRoles |-> allowedRoles],
                    RequireUserByRole(cookie, path, allowedRoles))

RequireUserCall ==
    \E path \in RoutePaths :
        ServiceCall("requireUser", [path |-> path, allowedRoles |-> Omitted],
                    RequireUser(cookie, path))

RequireAdminCall ==
    \E path \in RoutePaths :
        ServiceCall("requireAdmin", [path |-> path, allowedRoles |-> Given({"ADMIN"})],
                    RequireAdmin(cookie, path))

RequireSuperAdminCall ==
    \E path \in RoutePaths :
        ServiceCall("requireSuperAdmin", [path |-> path, allowedRoles |-> Given({"SUPERADMIN"})],
                    RequireSuperAdmin(cookie, path))

\* ------------------------------------------------------------------ initial
\* Every stored membership belongs to a stored user and an organization, and
\* no user has two default memberships.
Defaults(rows, userId) == {o \in OrgIds : IsDefault(rows, userId, o)}

MembershipTables ==
    {t \in [UserIds -> [OrgIds -> {NoRow, Row(FALSE), Row(TRUE)}]] :
        \A u \in UserIds : Cardinality(Defaults(t, u)) <= 1}

Init ==
    /\ \E stored \in SUBSET UserIds : users \in [stored -> UserRole]
    /\ memberships \in {t \in MembershipTables :
            \A u \in UserIds \ DOMAIN users : \A o \in OrgIds : t[u][o] = NoRow}
    /\ cookie \in Sessions
    /\ last = NoRequest
    /\ race = NoRace
    /\ ledger = NoLedger

Next ==
    \/ Login
    \/ ChooseOrgSubmit
    \/ ChooseOrgLoad
    \/ GetUserIdCall
    \/ GetUserCall
    \/ GetSessionUserCall
    \/ LogoutCall
    \/ RequireUserIdCall
    \/ RequireUserByRoleCall
    \/ RequireUserCall
    \/ RequireAdminCall
    \/ RequireSuperAdminCall
    \/ ResponseDelivered

Spec == Init /\ [][Next]_vars

\* ------------------------------------------------------ concurrent submits
\* Two submits of the selection form by the same user (two tabs), each at its
\* own position in the action: before the membership lookup, before its one
\* write to db.membership, or finished.
Tabs == {1, 2}

\* await db.membership.findUniqueOrThrow(...)
RaceLookup(t) ==
    /\ Racing
    /\ race.pc[t] = "lookup"
    /\ race' = [race EXCEPT !.pc[t] =
                    IF MembershipExists(race.userId, race.form[t].orgId)
                    THEN "write" ELSE "failed"]
    /\ UNCHANGED <<users, memberships, cookie, last, ledger>>

\* (mutation) the rows are computed from the table as the request first saw it
RaceWrittenRows_Stale(t) ==
    IF race.form[t].rememberSelection
    THEN MembershipUpdateDefault(race.start, race.userId, race.form[t].orgId)
    ELSE MembershipClearDefaults(race.start, race.userId)

\* the table after the statement of tab t: update, or updateMany
RaceWrittenRows(t) ==
    IF race.form[t].rememberSelection
    THEN MembershipUpdateDefault(memberships, race.userId, race.form[t].orgId)
    ELSE MembershipClearDefaults(memberships, race.userId)

\* await db.membership.update(...) / updateMany(...)
RaceWrite(t) ==
    /\ Racing
    /\ race.pc[t] = "write"
    /\ memberships' = RaceWrittenRows(t)
    /\ race' = [race EXCEPT !.pc[t] = "done"]
    /\ UNCHANGED <<users, cookie, last, ledger>>

RaceForms == [orgId : OrgIds, rememberSelection : BOOLEAN]

InitRace ==
    /\ \E stored \in SUBSET UserIds : users \in [stored -> UserRole]
    /\ memberships \in {t \in MembershipTables :
            \A u \in UserIds \ DOMAIN users : \A o \in OrgIds : t[u][o] = NoRow}
    /\ \E u \in DOMAIN users :
            /\ cookie = [userId |-> u, organizationId |-> Undefined]
            /\ \E form \in [Tabs -> RaceForms] :
                    race = [userId |-> u, start |-> memberships, form |-> form,
                            pc |-> [t \in Tabs |-> "lookup"]]
    /\ last = NoRequest
    /\ ledger = NoLedger

NextRace ==
    \/ \E t \in Tabs : RaceLookup(t)
    \/ \E t \in Tabs : RaceWrite(t)

SpecRace == InitRace /\ [][NextRace]_vars

\* ---------------------------------------------------- requireUserId on any path
\* The characters of the paths and redirectTo arguments that are tried.
PathnameChars == {"/", "a", "%"}
ArgumentChars == PathnameChars \cup {" ", "&"}

StringsOver(chars, n) == UNION {[1..k -> chars] : k \in 0..n}

\* new URL(request.url).pathname: it starts with "/" and holds no raw space
Pathnames == {RootPath \o s : s \in StringsOver(PathnameChars, MaxPathLen)} \cup {AccountPath}
RedirectToArguments == StringsOver(ArgumentChars, MaxPathLen) \cup {ChooseOrgPath}

RequireUserIdAnyPath ==
    \/ RequireUserIdOn(Pathnames, {})
    \/ RequireUserIdOn({AccountPath}, RedirectToArguments)

InitUrl ==
    /\ Init
    /\ \A u \in UserIds : \A o \in OrgIds : memberships[u][o] = NoRow

NextUrl ==
    \/ RequireUserIdAnyPath
    \/ ResponseDelivered

SpecUrl == InitUrl /\ [][NextUrl]_vars

\* ------------------------------------------------------------------ mail
ReimbursementRequestStatus == {"PENDING", "APPROVED", "REJECTED", "VOID"}

\* a username (email address) of no stored user
UnknownEmail == [user |-> 0]
Emails == UserIds \cup {UnknownEmail}

\* db.organization.findUniqueOrThrow / db.user.findUniqueOrThrow({username})
OrganizationFound(orgId) == orgId \in OrgIds
UserFoundByUsername(email) == email \in DOMAIN users

\* the try/catch around sendEmail: {data}, or the error captured and returned
TrySendEmail(email, delivered) ==
    IF delivered
    THEN Returns([data |-> [to |-> email]])
    ELSE Returns([error |-> "SendFailed", captured |-> TRUE])

SendPasswordResetEmail(email, orgId, delivered) ==
    IF ~OrganizationFound(orgId) THEN Thrown([error |-> "NotFound"])
    ELSE TrySendEmail(email, delivered)

SendPasswordSetupEmail(email, orgId, delivered) ==
    IF ~OrganizationFound(orgId) THEN Thrown([error |-> "NotFound"])
    ELSE IF ~UserFoundByUsername(email) THEN Thrown([error |-> "NotFound"])
    ELSE TrySendEmail(email, delivered)

SendReimbursementRequestUpdateEmail(email, status, orgId, note, delivered) ==
    IF ~OrganizationFound(orgId) THEN Returns([error |-> "NotFound", captured |-> TRUE])
    ELSE TrySendEmail(email, delivered)

MailRequest(email, orgId, delivered) ==
    [email |-> email, orgId |-> orgId, delivered |-> delivered]

SendPasswordResetEmailCall ==
    \E email \in Emails, orgId \in OrgIds \cup {UnknownOrgId}, delivered \in BOOLEAN :
        ServiceCall("sendPasswordResetEmail", MailRequest(email, orgId, delivered),
                    SendPasswordResetEmail(email, orgId, delivered))

SendPasswordSetupEmailCall ==
    \E email \in Emails, orgId \in OrgIds \cup {UnknownOrgId}, delivered \in BOOLEAN :
        ServiceCall("sendPasswordSetupEmail", MailRequest(email, orgId, delivered),
                    SendPasswordSetupEmail(email, orgId, delivered))

SendReimbursementRequestUpdateEmailCall ==
    \E email \in Emails, orgId \in OrgIds \cup {UnknownOrgId}, delivered \in BOOLEAN,
       status \in ReimbursementRequestStatus, note \in {NoString, <<"o", "k">>} :
        ServiceCall("sendReimbursementRequestUpdateEmail",
                    [email |-> email, orgId |-> orgId, delivered |-> delivered,
                     status |-> status, note |-> note],
                    SendReimbursementRequestUpdateEmail(email, status, orgId, note, delivered))

InitMail ==
    /\ Init
    /\ cookie = EmptySession
    /\ \A u \in UserIds : \A o \in OrgIds : memberships[u][o] = NoRow

NextMail ==
    \/ SendPasswordResetEmailCall
    \/ SendPasswordSetupEmailCall
    \/ SendReimbursementRequestUpdateEmailCall
    \/ ResponseDelivered

SpecMail == InitMail /\ [][NextMail]_vars

\* ------------------------------------------- one browser, from its first request
InitSession ==
    /\ Init
    /\ cookie = EmptySession

NextSession ==
    \/ Login
    \/ ChooseOrgSubmit
    \/ LogoutCall
    \/ ResponseDelivered

SpecSession == InitSession /\ [][NextSession]_vars

\* ----------------------------------------------------------- protected routes
\* One reimbursement request with its receipts, the accounts, and the
\* transactions created so far.
ReimbursementId == [reimbursement |-> 1]
UnknownReimbursementId == [reimbursement |-> 0]
AccountIds == {[account |-> 1], [account |-> 2]}
RequestAccountId == [account |-> 1]
UnknownAccountId == [account |-> 0]
NoAccountId == [account |-> -1]
RequestAmountInCents == 2500
ReceiptIds == {[receipt |-> 1], [receipt |-> 2]}

\* a receipt's s3Url and s3UrlExpiry against the clock: no url; a url without
\* an expiry; a url past its expiry; a url not yet expired; a url just signed
ReceiptUrlStates == {"none", "noExpiry", "expired", "current", "refreshed"}

ReimbursementPath == <<"/", "r">>
IncomePath == <<"/", "i">>
DonationPath == <<"/", "d">>

\* toast.json(request, data, toast, init) and toast.redirect(request, url, toast);
\* the flash message they carry is no part of the session fields kept here
ToastJson(data, title) == Response("ok", [data |-> data, toast |-> title], <<>>, NoCookie)
ToastJsonStatus400(title) == Response("badRequest", [toast |-> title], <<>>, NoCookie)
ToastRedirect(location, title) == Response("redirect", [toast |-> title], location, NoCookie)

\* requireUser(request, allowedRoles) of ~/lib/session.server: resolves the
\* user, lets a SUPERADMIN pass, and otherwise accepts a role of the given set
LibRequireUser(c, path, allowedRoles) ==
    LET auth == RequireUserId(c, path)
        user == GetUserById(auth.value)
    IN
    IF auth.kind # "ok" THEN auth
    ELSE IF user = Null THEN Logout(c)
    ELSE IF user.role = "SUPERADMIN" THEN Returns(user)
    ELSE IF allowedRoles # {}
    THEN IF user.role \in allowedRoles THEN Returns(user) ELSE Forbidden(user)
    ELSE IF user.role \in defaultAllowedRoles THEN Returns(user)
    ELSE Forbidden(user)

Handled(res, l) == [res |-> res, ledger |-> l]

\* The loader of a reimbursement request.
ReimbursementLoader(c, l, reimbursementId) ==
    LET auth == RequireAdmin(c, ReimbursementPath)
        someUrlUnusable == \E r \in ReceiptIds : l.receipts[r] \in {"none", "expired"}
        updated == [r \in ReceiptIds |->
                        IF l.receipts[r] \in {"current", "refreshed"}
                        THEN "refreshed" ELSE l.receipts[r]]
        found == [status |-> l.status, receipts |-> l.receipts]
    IN
    IF auth.kind # "ok" THEN Handled(auth, l)
    ELSE IF reimbursementId # ReimbursementId
    THEN Handled(Thrown([error |-> "Reimbursement request not found"]), l)
    ELSE Handled(Returns([reimbursementRequest |-> found,
                          accounts |-> AccountIds \ {RequestAccountId}]),
                 IF someUrlUnusable THEN [l EXCEPT !.receipts = updated] ELSE l)

ReimbursementActions == {"PENDING", "APPROVED", "REJECTED", "VOID", "REOPEN"}

\* (mutation) every transaction is booked on the account of the request
Transaction_OnRequestAccount(accountId, amountInCents) ==
    [accountId |-> RequestAccountId, amountInCents |-> amountInCents]

Transaction(accountId, amountInCents) ==
    [accountId |-> accountId, amountInCents |-> amountInCents]

\* (mutation) the gate of the reimbursement route without its role list
RequireAdminOnReimbursement_AnyRole(c) == RequireUserByRole(c, ReimbursementPath, Omitted)

\* await SessionService.requireAdmin(request) in the reimbursement action
RequireAdminOnReimbursement(c) == RequireAdmin(c, ReimbursementPath)

\* The action of a reimbursement request.
ReimbursementAction(c, l, form) ==
    LET auth == RequireAdminOnReimbursement(c)
        notFound == Thrown([error |-> "NotFound"])
        approved == [l EXCEPT !.status = "APPROVED"]
        total == RequestAmountInCents
    IN
    IF auth.kind # "ok" THEN Handled(auth, l)
    ELSE IF ~form.valid THEN Handled(ValidationError, l)
    ELSE IF form.action = "REOPEN"
    THEN IF form.id # ReimbursementId THEN Handled(notFound, l)
         ELSE Handled(ToastJson("reimbursementRequest", "Reimbursement Request reopened"),
                      [l EXCEPT !.status = "PENDING"])
    ELSE IF form.action = "APPROVED"
    THEN IF form.accountId = NoAccountId THEN Handled(ValidationError, l)
         ELSE IF form.id # ReimbursementId THEN Handled(notFound, l)
         ELSE IF form.accountId \notin AccountIds THEN Handled(notFound, approved)
         ELSE Handled(ToastJson("reimbursementRequest", "Reimbursement Request Approved"),
                      [approved EXCEPT !.transactions =
                            l.transactions
                                \o <<Transaction(RequestAccountId, total),
                                     Transaction(form.accountId, (-1) * total)>>])
    ELSE IF form.id # ReimbursementId THEN Handled(notFound, l)
    ELSE Handled(ToastJson("reimbursementRequest",
                           IF form.action = "REJECTED" THEN "Rejected" ELSE "Voided"),
                 [l EXCEPT !.status = form.action])

\* The loaders of the income and the donation form.
IncomeLoader(c) ==
    LET auth == LibRequireUser(c, IncomePath, {"SUPERADMIN", "ADMIN"})
    IN IF auth.kind # "ok" THEN auth ELSE Returns([accounts |-> AccountIds])

DonationLoader(c) ==
    LET auth == LibRequireUser(c, DonationPath, {"SUPERADMIN", "ADMIN"})
    IN IF auth.kind # "ok" THEN auth ELSE Returns([accounts |-> AccountIds])

\* The action of the income form.
IncomeAction(c, l, form) ==
    LET auth == LibRequireUser(c, IncomePath, {"ADMIN", "SUPERADMIN"})
    IN
    IF auth.kind # "ok" THEN Handled(auth, l)
    ELSE IF ~form.valid THEN Handled(ValidationError, l)
    ELSE IF form.shouldNotifyUser /\ (form.accountId \notin AccountIds \/ ~form.hasEmail)
    THEN Handled(ToastJsonStatus400("Error notifying user"), l)
    ELSE IF form.accountId \notin AccountIds THEN Handled(Thrown([error |-> "NotFound"]), l)
    ELSE Handled(ToastRedirect(AccountPath, "Success"),
                 [l EXCEPT !.transactions = Append(@, Transaction(form.accountId, form.total))])

\* The action of the donation form.
DonationAction(c, l, form) ==
    LET auth == LibRequireUser(c, DonationPath, {"ADMIN", "SUPERADMIN"})
    IN
    IF auth.kind # "ok" THEN Handled(auth, l)
    ELSE IF ~form.valid THEN Handled(ValidationError, l)
    ELSE IF form.accountId \notin AccountIds THEN Handled(Thrown([error |-> "NotFound"]), l)
    ELSE Handled(ToastRedirect(AccountPath, "Success"),
                 [l EXCEPT !.transactions = Append(@, Transaction(form.accountId, form.total))])

\* form values
ReimbursementForms ==
    [valid : BOOLEAN, action : ReimbursementActions,
     accountId : {NoAccountId, UnknownAccountId, [account |-> 2]},
     id : {ReimbursementId, UnknownReimbursementId}]
TransactionTotals == {1000}
IncomeForms ==
    {f \in [valid : BOOLEAN, accountId : {RequestAccountId, UnknownAccountId},
            total : TransactionTotals, shouldNotifyUser : BOOLEAN, hasEmail : BOOLEAN] :
        ~f.shouldNotifyUser => f.hasEmail}
DonationForms ==
    [valid : BOOLEAN, accountId : {RequestAccountId, UnknownAccountId},
     total : TransactionTotals]

RouteCall(op, req, out) ==
    /\ Len(out.ledger.transactions) <= MaxTransactions
    /\ Respond(op, req, out.res)
    /\ ledger' = out.ledger
    /\ UNCHANGED <<users, memberships>>

ReimbursementLoad ==
    /\ Idle
    /\ \E id \in {ReimbursementId, UnknownReimbursementId} :
            RouteCall("reimbursementLoader", [id |-> id], ReimbursementLoader(cookie, ledger, id))

ReimbursementSubmit ==
    /\ Idle
    /\ \E form \in ReimbursementForms :
            RouteCall("reimbursementAction", form, ReimbursementAction(cookie, ledger, form))

IncomeLoad ==
    /\ Idle
    /\ RouteCall("incomeLoader", Null, Handled(IncomeLoader(cookie), ledger))

IncomeSubmit ==
    /\ Idle
    /\ \E form \in IncomeForms :
            RouteCall("incomeAction", form, IncomeAction(cookie, ledger, form))

DonationLoad ==
    /\ Idle
    /\ RouteCall("donationLoader", Null, Handled(DonationLoader(cookie), ledger))

DonationSubmit ==
    /\ Idle
    /\ \E form \in DonationForms :
            RouteCall("donationAction", form, DonationAction(cookie, ledger, form))

\* One stored request in any status, one receipt with a current url and one
\* without; one user who may hold memberships, and one who is not stored.
InitRoutes ==
    /\ \E stored \in SUBSET {[user |-> 1]} : users \in [stored -> UserRole]
    /\ memberships \in {t \in MembershipTables :
            \A u \in UserIds \ DOMAIN users : \A o \in OrgIds : t[u][o] = NoRow}
    /\ cookie \in Sessions
    /\ last = NoRequest
    /\ race = NoRace
    /\ \E status \in ReimbursementRequestStatus :
            ledger = [status |-> status, transactions |-> <<>>,
                      receipts |-> [r \in ReceiptIds |->
                                        IF r = [receipt |-> 1] THEN "current" ELSE "none"]]

NextRoutes ==
    \/ ChooseOrgSubmit
    \/ ReimbursementLoad
    \/ ReimbursementSubmit
    \/ IncomeLoad
    \/ IncomeSubmit
    \/ DonationLoad
    \/ DonationSubmit
    \/ ResponseDelivered

SpecRoutes == InitRoutes /\ [][NextRoutes]_vars

\* ------------------------------------------------------------------ claims
\* The request being answered is a submit of the organization selection form
\* that got through: it wrote the session and redirects onward.
ChooseOrgSucceeded ==
    /\ last.op = "chooseOrg"
    /\ last.res.kind = "redirect"
    /\ last.res.setCookie.op = "commit"

\* the user of the request being answered, and that user as stored
Requester == last.prevCookie.userId
StoredRequester ==
    IF Requester \in DOMAIN users THEN [id |-> Requester, role |-> users[Requester]] ELSE Null

\* C1 (as claimed): after a successful submit with remember = true exactly one
\* membership of the user is the default, and it is the one for the submitted
\* orgId; every other membership of that user has isDefault = false.
C1_OnlySelectedIsDefault ==
    (ChooseOrgSucceeded /\ last.req.rememberSelection)
        => Defaults(memberships, Requester) = {last.req.orgId}

\* C2 (as claimed): starting from a store with at most one default membership
\* per user, every user has at most one default membership after any sequence
\* of submits.
C2_AtMostOneDefault ==
    \A u \in UserIds : Cardinality(Defaults(memberships, u)) <= 1

\* C3: after a successful submit with remember = false no membership of the
\* user is the default, whatever the flags were, the user's rows are the same
\* rows, and the memberships of the other users are unchanged.
C3_ForgetClearsAllDefaults ==
    (ChooseOrgSucceeded /\ ~last.req.rememberSelection)
        => /\ Defaults(memberships, Requester) = {}
           /\ \A o \in OrgIds :
                (memberships[Requester][o] = NoRow) <=> (last.prevMemberships[Requester][o] = NoRow)
           /\ \A u \in UserIds \ {Requester} : memberships[u] = last.prevMemberships[u]

C3_Witness ==
    /\ ChooseOrgSucceeded
    /\ ~last.req.rememberSelection
    /\ Cardinality(Defaults(last.prevMemberships, Requester)) = 2
    /\ \E u \in UserIds \ {Requester} : Defaults(memberships, u) # {}

\* C4: a submit by an authenticated user with an orgId that is no membership of
\* that user fails and changes nothing: the membership rows and flags are as
\* before, the session is as before, and the response sets no cookie.
NotAMembership ==
    /\ last.op = "chooseOrg"
    /\ Requester # Undefined
    /\ \/ last.req.orgId \notin OrgIds
       \/ /\ last.req.orgId \in OrgIds
          /\ last.prevMemberships[Requester][last.req.orgId] = NoRow

C4_InvalidOrgChangesNothing ==
    NotAMembership
        => /\ last.res.kind \in {"error", "validationError"}
           /\ (last.req.orgId # BlankOrgId => last.res = Thrown([error |-> "NotFound"]))
           /\ memberships = last.prevMemberships
           /\ cookie = last.prevCookie
           /\ last.res.setCookie.op = "none"

C4_Witness ==
    /\ NotAMembership
    /\ last.req.orgId \in OrgIds
    /\ last.req.rememberSelection
    /\ Requester \in DOMAIN users
    /\ last.prevCookie.organizationId = Undefined
    /\ last.res.kind = "error"

\* C5: after a successful submit for orgId the session committed in the
\* response holds organizationId = orgId and the userId it held before, and it
\* is the session the next request carries, whether or not an organizationId
\* was set before.
C5_CommittedSessionHoldsOrg ==
    ChooseOrgSucceeded
        => /\ last.res.setCookie.session.organizationId = last.req.orgId
           /\ last.res.setCookie.session.userId = Requester
           /\ cookie = last.res.setCookie.session
           /\ GetSession(cookie)[ORGANIZATION_SESSION_KEY] = last.req.orgId

C5_Witness ==
    /\ ChooseOrgSucceeded
    /\ last.prevCookie.organizationId \in OrgIds \ {last.req.orgId}
    /\ cookie.organizationId = last.req.orgId

\* The request being answered went through the role gate.
GateOps == {"requireUserByRole", "requireUser", "requireAdmin", "requireSuperAdmin"}
GateCall == last.op \in GateOps
NonEmptyAllowedRoles == last.req.allowedRoles.given /\ last.req.allowedRoles.roles # {}

\* C6: for a request whose session userId resolves to a SUPERADMIN the role
\* gate succeeds and returns that user, for every allowedRoles (omitted,
\* empty, or any set, with or without SUPERADMIN in it).
C6_SuperAdminOverride ==
    (GateCall /\ StoredRequester # Null /\ StoredRequester.role = "SUPERADMIN")
        => last.res = Returns(StoredRequester)

C6_Witness ==
    /\ last.op = "requireUserByRole"
    /\ last.req.allowedRoles = Given({"USER"})
    /\ StoredRequester # Null
    /\ StoredRequester.role = "SUPERADMIN"
    /\ last.res.kind = "ok"

\* C7 (as claimed): for a resolved user who is no SUPERADMIN and a non-empty
\* allowedRoles the gate succeeds iff the user's role is in allowedRoles, and
\* otherwise fails with Forbidden.
C7_RoleMismatchIsForbidden ==
    (GateCall /\ NonEmptyAllowedRoles /\ StoredRequester # Null
        /\ StoredRequester.role # "SUPERADMIN")
        => IF StoredRequester.role \in last.req.allowedRoles.roles
           THEN last.res = Returns(StoredRequester)
           ELSE last.res.kind = "forbidden"

PercentDecode(x, y) ==
    CASE <<x, y>> = <<"2", "F">> -> "/"
      [] <<x, y>> = <<"2", "5">> -> "%"
      [] <<x, y>> = <<"3", "F">> -> "?"
      [] <<x, y>> = <<"3", "D">> -> "="
      [] <<x, y>> = <<"2", "6">> -> "&"
      [] <<x, y>> = <<"2", "B">> -> "+"
      [] <<x, y>> = <<"3", "A">> -> ":"
      [] OTHER -> "?"

RECURSIVE FormDecode(_)
FormDecode(s) ==
    IF s = <<>> THEN <<>>
    ELSE IF Head(s) = "+" THEN <<" ">> \o FormDecode(Tail(s))
    ELSE IF Head(s) = "%" /\ Len(s) >= 3
    THEN <<PercentDecode(s[2], s[3])>> \o FormDecode(SubSeq(s, 4, Len(s)))
    ELSE <<Head(s)>> \o FormDecode(Tail(s))

LoginWithRedirectTo ==
    <<"/", "l", "o", "g", "i", "n", "?", "r", "e", "d", "i", "r", "e", "c", "t", "T", "o", "=">>

IsPrefix(p, s) == Len(p) <= Len(s) /\ SubSeq(s, 1, Len(p)) = p

\* the path the login redirect has to lead back to
RedirectTarget ==
    IF last.req.redirectTo = NoString THEN last.req.path ELSE last.req.redirectTo

\* C9: requireUserId on a session without userId redirects to /login with a
\* redirectTo query parameter that is the URL-encoded path of the request (or
\* the explicit redirectTo argument): the value holds no character with a
\* meaning in a query string and reads back as that path; /accounts/42 gives
\* /login?redirectTo=%2Faccounts%2F42. With a userId in the session it returns
\* the userId and does not redirect.
C9_LoginRedirectEncodesPath ==
    last.op = "requireUserId"
        => IF Requester = Undefined
           THEN LET value == SubSeq(last.res.location, Len(LoginWithRedirectTo) + 1,
                                    Len(last.res.location))
                IN /\ last.res.kind = "redirect"
                   /\ last.res.setCookie.op = "none"
                   /\ IsPrefix(LoginWithRedirectTo, last.res.location)
                   /\ \A i \in 1..Len(value) : value[i] \in FormSafeChars \cup {"%", "+"}
                   /\ FormDecode(value) = RedirectTarget
                   /\ (RedirectTarget = AccountPath
                        => value = <<"%", "2", "F", "a", "c", "c", "o", "u", "n", "t", "s",
                                     "%", "2", "F", "4", "2">>)
           ELSE last.res = Returns(Requester)

C9_Witness ==
    /\ last.op = "requireUserId"
    /\ Requester = Undefined
    /\ last.req.redirectTo = NoString
    /\ last.req.path = AccountPath
    /\ last.res.kind = "redirect"

\* C10: getUser and getSessionUser return null exactly when the session holds
\* no userId; when it holds a userId that resolves to no stored user they
\* redirect to /login with a cookie-clearing header, so that the cookie the
\* browser is left with holds no userId; otherwise they return the user.
C10_DanglingUserForcesLogout ==
    last.op \in {"getUser", "getSessionUser"}
        => /\ (last.res = Returns(Null)) <=> (Requester = Undefined)
           /\ (Requester # Undefined /\ StoredRequester = Null)
                => /\ last.res.kind = "redirect"
                   /\ last.res.location = LoginPath
                   /\ last.res.setCookie.op = "destroy"
                   /\ cookie.userId = Undefined
                   /\ cookie = EmptySession
           /\ StoredRequester # Null => last.res = Returns(StoredRequester)

C10_Witness ==
    /\ last.op = "getSessionUser"
    /\ Requester # Undefined
    /\ StoredRequester = Null
    /\ last.prevCookie.organizationId # Undefined
    /\ last.res.kind = "redirect"
    /\ cookie = EmptySession

\* C11 (as claimed): when the role gate runs on a request whose session userId
\* resolves to no stored user, the outcome is a forced logout (redirect to
\* /login that destroys the session) and not a Forbidden response that leaves
\* the cookie in place.
C11_GateLogsOutDanglingUser ==
    (GateCall /\ Requester # Undefined /\ StoredRequester = Null)
        => /\ last.res.kind = "redirect"
           /\ last.res.location = LoginPath
           /\ last.res.setCookie.op = "destroy"
           /\ cookie.userId = Undefined

\* C13 (as claimed): a submit whose orgId is well formed but no membership of
\* the user is answered like a failed validation, with a validation error for
\* the form, and does not end in an unhandled error.
C13_InvalidOrgIsValidationError ==
    (NotAMembership /\ last.req.orgId # BlankOrgId)
        => last.res.kind = "validationError"

\* C14 (as claimed): the redirect of a successful submit leads to the submitted
\* redirectTo, or to the root when none was submitted, and never to the
\* selection screen: a submitted /choose-org is normalized to the root, for
\* every submitted value.
C14_NeverRedirectsToChooser ==
    ChooseOrgSucceeded
        => /\ last.res.location # Origin \o ChooseOrgPath
           /\ last.res.location =
                Origin \o (IF last.req.redirectTo \in {NoString, ChooseOrgPath}
                           THEN RootPath ELSE last.req.redirectTo)

\* C19: getUserId, requireUserId and the role gate are read-only: whatever the
\* outcome (a value, the login redirect, Unauthorized, Forbidden), the session,
\* the stored users and the memberships are as before and the response sets no
\* cookie.
ReadOnlyOps == {"getUserId", "requireUserId"} \cup GateOps

C19_GatesAreReadOnly ==
    last.op \in ReadOnlyOps
        => /\ cookie = last.prevCookie
           /\ users = last.prevUsers
           /\ memberships = last.prevMemberships
           /\ last.res.setCookie.op = "none"

C19_Witness ==
    /\ last.op = "requireUser"
    /\ last.res.kind = "forbidden"
    /\ last.prevCookie.organizationId # Undefined
    /\ cookie = last.prevCookie

\* C12: in the loader of the selection route a stored user without memberships
\* is never presented the selection: the outcome is a redirect to /login that
\* carries the session-destroying cookie header and an error message; a user
\* with memberships is presented exactly one candidate per membership, with
\* its default flag, and the session is left as it was.
RequesterOrgs == {o \in OrgIds : last.prevMemberships[Requester][o] # NoRow}

C12_LoaderPresentsOrLogsOut ==
    (last.op = "chooseOrgLoader" /\ StoredRequester # Null)
        => IF RequesterOrgs = {}
           THEN /\ last.res.kind = "redirect"
                /\ last.res.location = LoginPath
                /\ last.res.setCookie.op = "destroy"
                /\ last.res.value.toast = "error"
                /\ cookie = EmptySession
           ELSE /\ last.res.kind = "ok"
                /\ Len(last.res.value.orgs) = Cardinality(RequesterOrgs)
                /\ \A o \in RequesterOrgs :
                     Cardinality({i \in 1..Len(last.res.value.orgs) :
                        /\ last.res.value.orgs[i].id = o
                        /\ last.res.value.orgs[i].isDefault
                             = (last.prevMemberships[Requester][o] = "default")}) = 1
                /\ last.res.setCookie.op = "none"
                /\ cookie = last.prevCookie

C12_Witness ==
    /\ last.op = "chooseOrgLoader"
    /\ StoredRequester # Null
    /\ RequesterOrgs = {}
    /\ last.prevCookie.organizationId # Undefined
    /\ last.res.kind = "redirect"
    /\ cookie = EmptySession

\* C20 (as claimed): after any sequence of logins, organization selections and
\* logouts on one cookie, a session that holds a userId and an organizationId
\* holds those of a user who is a member of that organization; a login on a
\* session that carries another user's organizationId does not pair the new
\* userId with it.
C20_SessionUserIsMemberOfOrg ==
    (cookie.userId # Undefined /\ cookie.organizationId # Undefined)
        => memberships[cookie.userId][cookie.organizationId] # NoRow

\* C18 (as claimed): the three email senders never raise to their caller:
\* when the transport or the lookup of the organization or of the user fails,
\* each captures the error and returns an {error} value.
MailOps == {"sendPasswordResetEmail", "sendPasswordSetupEmail",
            "sendReimbursementRequestUpdateEmail"}

MailCollaboratorFailed ==
    \/ ~last.req.delivered
    \/ last.req.orgId \notin OrgIds
    \/ last.op = "sendPasswordSetupEmail" /\ last.req.email \notin DOMAIN users

C18_SendersReturnErrors ==
    last.op \in MailOps
        => /\ last.res.kind = "ok"
           /\ MailCollaboratorFailed
                => ("error" \in DOMAIN last.res.value /\ last.res.value.captured)
           /\ ~MailCollaboratorFailed => "data" \in DOMAIN last.res.value

\* C17: for two concurrent submits of one user and every interleaving of their
\* lookups and writes, the final isDefault flags are those of running the two
\* submits one after the other in one of the two orders; and two submits of
\* the same form leave the flags that one of them leaves.
RaceFinished == Racing /\ \A t \in Tabs : race.pc[t] \in {"done", "failed"}

\* the flags after one whole submit of `form` on the table `rows`
SubmitAlone(rows, form) ==
    IF rows[race.userId][form.orgId] = NoRow THEN rows
    ELSE IF form.rememberSelection
    THEN [rows EXCEPT ![race.userId][form.orgId] = "default"]
    ELSE [rows EXCEPT ![race.userId] =
            [o \in OrgIds |-> IF rows[race.userId][o] = NoRow THEN NoRow ELSE "member"]]

C17_RaceIsSerializable ==
    RaceFinished
        => /\ \/ memberships = SubmitAlone(SubmitAlone(race.start, race.form[1]), race.form[2])
              \/ memberships = SubmitAlone(SubmitAlone(race.start, race.form[2]), race.form[1])
           /\ race.form[1] = race.form[2]
                => memberships = SubmitAlone(race.start, race.form[1])

C17_Witness ==
    /\ RaceFinished
    /\ \A t \in Tabs : race.pc[t] = "done"
    /\ race.form[1].orgId # race.form[2].orgId
    /\ race.form[1].rememberSelection
    /\ ~race.form[2].rememberSelection
    /\ Defaults(memberships, race.userId) = {race.form[1].orgId}

\* C15 (as claimed): the body of a protected handler runs only for a request
\* whose user is resolved, whose session holds an active organization, and
\* whose role passes the check.
ProtectedOps == {"reimbursementLoader", "reimbursementAction", "incomeLoader",
                 "incomeAction", "donationLoader", "donationAction"}

GateRejected(res) ==
    \/ res.kind \in {"unauthorized", "forbidden"}
    \/ res.kind = "redirect" /\ IsPrefix(LoginPath, res.location)

BodyRan == last.op \in ProtectedOps /\ ~GateRejected(last.res)

C15_BodyRunsAfterAllGates ==
    BodyRan
        => /\ StoredRequester # Null
           /\ last.prevCookie.organizationId # Undefined
           /\ StoredRequester.role \in {"ADMIN", "SUPERADMIN"}

\* C16: an action that wrote anything (membership flags, the reimbursement
\* status, a transaction, a session committed with new contents) had passed
\* its identity check, its role check and, for the organization selection, its
\* membership lookup.
ActionOps == {"chooseOrg", "reimbursementAction", "incomeAction", "donationAction"}

Wrote ==
    \/ memberships # last.prevMemberships
    \/ users # last.prevUsers
    \/ ledger # last.prevLedger
    \/ last.res.setCookie.op = "commit"

ChecksPassed ==
    IF last.op = "chooseOrg"
    THEN /\ Requester # Undefined
         /\ last.req.orgId \in OrgIds
         /\ last.prevMemberships[Requester][last.req.orgId] # NoRow
    ELSE /\ StoredRequester # Null
         /\ StoredRequester.role \in {"ADMIN", "SUPERADMIN"}

C16_AuthorizeBeforeAct == (last.op \in ActionOps /\ Wrote) => ChecksPassed

C16_Witness ==
    /\ last.op = "reimbursementAction"
    /\ last.req.valid
    /\ last.req.action = "APPROVED"
    /\ last.req.accountId \in AccountIds
    /\ last.req.id = ReimbursementId
    /\ StoredRequester # Null
    /\ StoredRequester.role = "USER"
    /\ last.prevLedger.status = "PENDING"
    /\ last.res.kind = "unauthorized"
    /\ ~Wrote

\* C21: an APPROVED submit with an accountId on the stored request sets the
\* status to APPROVED and creates either no transaction or exactly two, +total
\* on the account of the request and -total on the chosen account, summing to
\* zero, and creates the two whenever it answers with success; an APPROVED
\* submit without an accountId answers with a validation error and changes
\* neither the status nor the transactions.
ApprovalSubmitted ==
    /\ last.op = "reimbursementAction"
    /\ ~GateRejected(last.res)
    /\ last.req.valid
    /\ last.req.action = "APPROVED"

CreatedTransactions ==
    SubSeq(ledger.transactions, Len(last.prevLedger.transactions) + 1,
           Len(ledger.transactions))

C21_ApprovalCreatesBalancedPair ==
    ApprovalSubmitted
        => IF last.req.accountId = NoAccountId
           THEN /\ last.res.kind = "validationError"
                /\ ledger = last.prevLedger
           ELSE last.req.id = ReimbursementId
                    => /\ ledger.status = "APPROVED"
                       /\ SubSeq(ledger.transactions, 1, Len(last.prevLedger.transactions))
                              = last.prevLedger.transactions
                       /\ \/ CreatedTransactions = <<>> /\ last.res.kind # "ok"
                          \/ /\ CreatedTransactions
                                    = <<[accountId |-> [account |-> 1], amountInCents |-> 2500],
                                        [accountId |-> last.req.accountId,
                                         amountInCents |-> -2500]>>
                             /\ CreatedTransactions[1].amountInCents
                                    + CreatedTransactions[2].amountInCents = 0

C21_Witness ==
    /\ ApprovalSubmitted
    /\ last.req.accountId = [account |-> 2]
    /\ last.req.id = ReimbursementId
    /\ last.prevLedger.status = "PENDING"
    /\ last.res.kind = "ok"
    /\ ledger.status = "APPROVED"
    /\ Len(CreatedTransactions) = 2

\* C22 (as claimed): a reimbursement action sets the status to APPROVED,
\* REJECTED or VOID only on a PENDING request, sets it back to PENDING only on
\* a request that is not PENDING, and creates a pair of transactions only in a
\* step from PENDING to APPROVED.
ReimbursementActionRan ==
    /\ last.op = "reimbursementAction"
    /\ ~GateRejected(last.res)
    /\ last.res.kind = "ok"

C22_StatusMachine ==
    ReimbursementActionRan
        => /\ last.req.action \in {"APPROVED", "REJECTED", "VOID"}
                => last.prevLedger.status = "PENDING"
           /\ last.req.action = "REOPEN" => last.prevLedger.status # "PENDING"
           /\ ledger.transactions # last.prevLedger.transactions
                => last.prevLedger.status = "PENDING" /\ ledger.status = "APPROVED"

\* C23 (as claimed): after the loader has answered with the request, every
\* receipt whose url was missing or expired holds a freshly signed url, and
\* every receipt whose url was present and unexpired is as it was.
ReimbursementLoaded ==
    /\ last.op = "reimbursementLoader"
    /\ ~GateRejected(last.res)
    /\ last.res.kind = "ok"

C23_StaleReceiptUrlsRefreshed ==
    ReimbursementLoaded
        => \A r \in DOMAIN ledger.receipts :
                IF last.prevLedger.receipts[r] \in {"none", "expired"}
                THEN ledger.receipts[r] = "refreshed"
                ELSE ledger.receipts[r] = last.prevLedger.receipts[r]
====
